---- MODULE Spec2Model ----
(***************************************************************************)
(* The XSD name-collision pipeline of src/ps: find_collisions.py (the      *)
(* Detector), fix_collisions.py (the Resolver) and finalize_schema.py (the *)
(* Finalizer).                                                             *)
(*                                                                         *)
(* A string is a sequence of one-character strings.  A node of the tree is *)
(* [tag, attrs, text]: attrs is the attribute dictionary (a function whose *)
(* domain is the set of attributes present) and text the words of the      *)
(* node's character data.  A root-level child is its subtree in document   *)
(* (pre-)order, the child itself first.  A document is                     *)
(* [root |-> tag of the root, children |-> the root-level subtrees].       *)
(* A file is <<>> when it does not exist and <<document>> when it does.    *)
(***************************************************************************)
EXTENDS Integers, Sequences, FiniteSets, TLC

VARIABLES
    input,        \* the input .xsd on disk (never written by any tool)
    fixed_xsd,    \* the file the Resolver writes (-o), read by the Finalizer
    tool,         \* the tool that ran last: "none", "find", "fix", "finalize"
    status,       \* its process exit status
    tree,         \* its in-memory tree when it exited
    dupes,        \* find_collisions: the duplicate map
    rename_plan,  \* fix_collisions: the planned renames, in planning order
    updates,      \* fix_collisions / finalize_schema: the reported count
    ambiguous_names, \* finalize_schema: the keys of its rename plan
    written       \* the file the last run wrote (<<>> when it wrote none)

vars == <<input, fixed_xsd, tool, status, tree, dupes, rename_plan, updates,
          ambiguous_names, written>>

\* The longest document (number of root-level children) that is explored.
MaxDecls == 3

-----------------------------------------------------------------------------
(* Strings *)

\* str.lower() on one character
LowerChar(c) ==
    CASE c = "A" -> "a" [] c = "B" -> "b" [] c = "R" -> "r"
      [] c = "T" -> "t" [] c = "Request" -> "request" [] OTHER -> c

RECURSIVE Lower(_)
Lower(s) == IF s = <<>> THEN <<>> ELSE <<LowerChar(Head(s))>> \o Lower(Tail(s))

\* s[i..] starts with sub
StartsAt(s, sub, i) ==
    /\ i + Len(sub) - 1 <= Len(s)
    /\ \A k \in 1..Len(sub) : s[i + k - 1] = sub[k]

\* sub in s
Contains(s, sub) == \E i \in 1..(Len(s) + 1) : StartsAt(s, sub, i)

\* s.split(sep)[0]: the part before the first occurrence of sep (s when none)
SplitHead(s, sep) ==
    IF Contains(s, sep)
    THEN LET i == CHOOSE j \in 1..(Len(s) + 1) :
                     /\ StartsAt(s, sep, j)
                     /\ \A k \in 1..(j - 1) : ~StartsAt(s, sep, k)
         IN  SubSeq(s, 1, i - 1)
    ELSE s

Digit(d) ==
    CASE d = 0 -> "0" [] d = 1 -> "1" [] d = 2 -> "2" [] d = 3 -> "3"
      [] d = 4 -> "4" [] d = 5 -> "5" [] d = 6 -> "6" [] d = 7 -> "7"
      [] d = 8 -> "8" [] d = 9 -> "9"

\* str(n) for n >= 0
RECURSIVE FormatInt(_)
FormatInt(n) ==
    IF n < 10 THEN <<Digit(n)>> ELSE FormatInt(n \div 10) \o <<Digit(n % 10)>>

\* pattern.format(n=n): the placeholder {n} is one element of the pattern
RECURSIVE Format(_, _)
Format(pattern, n) ==
    IF pattern = <<>> THEN <<>>
    ELSE (IF Head(pattern) = "{n}" THEN FormatInt(n) ELSE <<Head(pattern)>>)
         \o Format(Tail(pattern), n)

\* the number of elements of the sequence s that are in the set S
RECURSIVE CountIn(_, _)
CountIn(s, S) ==
    IF s = <<>> THEN 0
    ELSE (IF Head(s) \in S THEN 1 ELSE 0) + CountIn(Tail(s), S)

RECURSIVE Flatten(_)
Flatten(ss) == IF ss = <<>> THEN <<>> ELSE Head(ss) \o Flatten(Tail(ss))

-----------------------------------------------------------------------------
(* Constants of the three scripts *)

GLOBAL_KINDS == {"element", "complexType", "simpleType"}
GLOBAL_COMPONENTS == {"element", "complexType", "simpleType"}
GLOBAL_DEFINITIONS == {"complexType", "simpleType"}
REF_ATTRS == <<"type", "base", "ref">>
\* the default of --fallback-suffix
fallback_suffix == <<"_", "x", "{n}">>

NoAffinity == <<>>
NoFile == <<>>

\* e.get(a) or "" : the value of attribute a, "" when it is absent
Get(n, a) == IF a \in DOMAIN n.attrs THEN n.attrs[a] ELSE <<>>

\* e.set(a, v)
SetAttr(n, a, v) ==
    [n EXCEPT !.attrs = [b \in (DOMAIN n.attrs) \cup {a} |->
                            IF b = a THEN v ELSE n.attrs[b]]]

\* is the root-level child (a subtree) a global declaration:
\* ch.tag in GLOBAL_KINDS and "name" in ch.attrib
IsGlobal(sub) == sub[1].tag \in GLOBAL_KINDS /\ "name" \in DOMAIN sub[1].attrs

NameOf(sub) == sub[1].attrs["name"]

\* get_global_names(root)
get_global_names(doc) ==
    {NameOf(doc.children[i]) : i \in {j \in 1..Len(doc.children) :
          /\ doc.children[j][1].tag \in GLOBAL_COMPONENTS
          /\ "name" \in DOMAIN doc.children[j][1].attrs}}

\* (mutant) no check of the root at all
BadRootNever(doc) == FALSE

\* root.tag != q("schema")
BadRoot(doc) == doc.root # "schema"

-----------------------------------------------------------------------------
(* The documents explored *)

N(tag, attrs, text) == [tag |-> tag, attrs |-> attrs, text |-> text]

sA == <<"A">>
sAx2 == <<"A", "_", "x", "2">>
sARq == <<"A", "_", "R", "q">>
sRs == <<"R", "s">>
stA == <<"t", ":", "A">>
stRs == <<"t", ":", "R", "s">>

\* The root-level children a document is made of: declarations named A of
\* the three kinds, plain, request-like and response-like; a global element
\* typed by a prefixed reference; declarations that carry the names the
\* Resolver would choose; a declaration and a reference with empty values; a
\* named child that is no global kind; a nameless element with an unprefixed
\* reference.
Subtrees ==
    { <<N("complexType", [name |-> sA], <<>>)>>,
      <<N("complexType", [name |-> sA], <<"Request", "Request">>)>>,
      <<N("complexType", [name |-> sA], <<>>),
        N("element", [name |-> sRs, type |-> stRs], <<>>)>>,
      <<N("element", [name |-> sA, type |-> stA], <<>>)>>,
      <<N("complexType", [name |-> sAx2], <<>>)>>,
      <<N("complexType", [name |-> sARq], <<>>)>>,
      <<N("simpleType", [name |-> <<>>], <<>>),
        N("restriction", [base |-> <<>>], <<>>)>>,
      <<N("group", [name |-> sA], <<>>)>>,
      <<N("element", [ref |-> sA], <<>>)>> }

RECURSIVE SeqsUpTo(_, _)
SeqsUpTo(S, n) ==
    IF n = 0 THEN {<<>>}
    ELSE LET shorter == SeqsUpTo(S, n - 1)
         IN  shorter \cup {Append(s, x) : s \in {t \in shorter : Len(t) = n - 1},
                                          x \in S}

Documents ==
    {[root |-> r, children |-> c] :
        r \in {"schema", "definitions"}, c \in SeqsUpTo(Subtrees, MaxDecls)}

-----------------------------------------------------------------------------
(* find_collisions.py *)

\* the indices of the global declarations, in document order
RECURSIVE GlobalsFrom(_, _)
GlobalsFrom(children, i) ==
    IF i > Len(children) THEN <<>>
    ELSE (IF IsGlobal(children[i]) THEN <<i>> ELSE <<>>)
         \o GlobalsFrom(children, i + 1)

Order(doc) == GlobalsFrom(doc.children, 1)

SelectIdx(order, children, name) ==
    SelectSeq(order, LAMBDA i : NameOf(children[i]) = name)

\* by_name: name -> the indices of the declarations that carry it, in order
ByName(doc) ==
    LET order == Order(doc)
        names == {NameOf(doc.children[order[k]]) : k \in 1..Len(order)}
    IN  [nm \in names |-> SelectIdx(order, doc.children, nm)]

\* lxml's sourceline of a root-level child (the root is on line 1 and every
\* node on a line of its own)
RECURSIVE SourceLine(_, _)
SourceLine(children, i) ==
    IF i = 1 THEN 2 ELSE SourceLine(children, i - 1) + Len(children[i - 1])

\* by_name of the Detector: name -> the {kind, line} entries
DetectorByName(doc) ==
    LET bn == ByName(doc) IN
    [nm \in DOMAIN bn |->
        [k \in 1..Len(bn[nm]) |->
            [kind |-> doc.children[bn[nm][k]][1].tag,
             line |-> SourceLine(doc.children, bn[nm][k])]]]

\* (mutant) the groups of one declaration are kept too
DupesAll(doc) == DetectorByName(doc)

\* dupes = {k: v for k, v in by_name.items() if len(v) > 1}
Dupes(doc) ==
    LET bn == DetectorByName(doc) IN
    [nm \in {k \in DOMAIN bn : Len(bn[k]) > 1} |-> bn[nm]]

NoDupes == [nm \in {} |-> <<>>]

FindCollisions(json) ==
    /\ tool' = "find"
    /\ IF BadRoot(input)
       THEN /\ status' = 2
            /\ dupes' = NoDupes
            /\ written' = NoFile
       ELSE /\ status' = 0
            /\ dupes' = Dupes(input)
            /\ written' = IF json THEN <<Dupes(input)>> ELSE NoFile
    /\ tree' = input
    /\ rename_plan' = <<>>
    /\ updates' = 0
    /\ ambiguous_names' = {}
    /\ UNCHANGED <<input, fixed_xsd>>

-----------------------------------------------------------------------------
(* fix_collisions.py *)

\* The serialized subtree contains the six counted substrings only inside
\* character data: no tag, attribute name or attribute value of the documents
\* explored contains one.  WordsWith(p) is the set of (lower-cased) words in
\* which the substring p occurs (once).
WordsWith(p) ==
    CASE p = "request"  -> {"request"}
      [] p = "rqecho"   -> {"rqecho", "rqechoflag"}
      [] p = "response" -> {"response"}
      [] p = "echoflag" -> {"echoflag", "rqechoflag"}

\* blob.count(p), blob = text_blob(elem).lower()
BlobCount(sub, p) ==
    CountIn(Lower(Flatten([k \in 1..Len(sub) |-> sub[k].text])), WordsWith(p))

\* blob.count(">w<"): the nodes whose whole character data is the word w
BracketCount(sub, w) ==
    Cardinality({k \in 1..Len(sub) : Lower(sub[k].text) = <<w>>})

\* the attribute loop of guess_affinity: how many name/type/base values of the
\* subtree contain tok, case-insensitively
AttrCount(sub, tok) ==
    Cardinality({<<k, a>> \in (1..Len(sub)) \X {"name", "type", "base"} :
                    Contains(Lower(Get(sub[k], a)), tok)})

RqScore(sub) ==
    BlobCount(sub, "request") + BlobCount(sub, "rqecho") + BracketCount(sub, "rq")
    + AttrCount(sub, <<"r", "q">>)

RsScore(sub) ==
    BlobCount(sub, "response") + BlobCount(sub, "echoflag") + BracketCount(sub, "rs")
    + AttrCount(sub, <<"r", "s">>)

Decide(rq, rs) ==
    IF rq >= rs + 2 THEN <<"_", "R", "q">>
    ELSE IF rs >= rq + 2 THEN <<"_", "R", "s">>
    ELSE IF rq > rs /\ rq >= 2 THEN <<"_", "R", "q">>
    ELSE IF rs > rq /\ rs >= 2 THEN <<"_", "R", "s">>
    ELSE NoAffinity

guess_affinity(sub) == Decide(RqScore(sub), RsScore(sub))

\* by_name.keys() in insertion order: the names by first appearance
Keys(doc) ==
    LET o == Order(doc)
        first == SelectSeq(o, LAMBDA i :
                     \A j \in 1..(i - 1) :
                         IsGlobal(doc.children[j]) => NameOf(doc.children[j]) # NameOf(doc.children[i]))
    IN  [k \in 1..Len(first) |-> NameOf(doc.children[first[k]])]

\* (mutant) chosen_names starts empty
InitialChosenEmpty(doc) == {}

\* chosen_names = set(by_name.keys())
InitialChosen(doc) == LET keys == Keys(doc) IN {keys[k] : k \in 1..Len(keys)}

\* (mutant) the first member of a group is not skipped
TasksAll(doc) ==
    LET bn == ByName(doc)
        keys == Keys(doc)
        GroupTasks(nm) ==
            IF Len(bn[nm]) <= 1 THEN <<>>
            ELSE [k \in 1..Len(bn[nm]) |-> [name |-> nm, i |-> k, node |-> bn[nm][k]]]
    IN  Flatten([k \in 1..Len(keys) |-> GroupTasks(keys[k])])

\* the (name, i, node) of the two loops of step 2, in the order they run:
\* the members after the first of every group of more than one declaration
Tasks(doc) ==
    LET bn == ByName(doc)
        keys == Keys(doc)
        GroupTasks(nm) ==
            IF Len(bn[nm]) <= 1 THEN <<>>
            ELSE [k \in 1..(Len(bn[nm]) - 1) |->
                     [name |-> nm, i |-> k + 1, node |-> bn[nm][k + 1]]]
    IN  Flatten([k \in 1..Len(keys) |-> GroupTasks(keys[k])])

\* (mutant) the heuristic's suffix is never used
BaseNameFallbackOnly(name, hx, i) == name \o Format(fallback_suffix, i)

\* name + (hx if hx else args.fallback_suffix.format(n=i))
BaseName(name, hx, i) ==
    name \o (IF hx # NoAffinity THEN hx ELSE Format(fallback_suffix, i))

\* (mutant) the first candidate is taken whether or not it is in use
BumpNoCheck(name, new_name, bump, chosen) == new_name

\* the while loop: bump until the name is free
RECURSIVE Bump(_, _, _, _)
Bump(name, new_name, bump, chosen) ==
    IF new_name \in chosen
    THEN Bump(name, name \o Format(fallback_suffix, bump + 1), bump + 1, chosen)
    ELSE new_name

\* step 2 over the remaining tasks: the entries of rename_plan, in order
RECURSIVE PlanFrom(_, _, _)
PlanFrom(doc, tasks, chosen) ==
    IF tasks = <<>> THEN <<>>
    ELSE LET t == Head(tasks)
             hx == guess_affinity(doc.children[t.node])
             new_name == Bump(t.name, BaseName(t.name, hx, t.i), t.i, chosen)
         IN  <<[node |-> t.node, old |-> t.name, new |-> new_name]>>
             \o PlanFrom(doc, Tail(tasks), chosen \cup {new_name})

RenamePlan(doc) == PlanFrom(doc, Tasks(doc), InitialChosen(doc))

\* (mutant) the canonical name of a group is the new name of its last member
CanonicalNameRenamed(doc) ==
    LET bn == ByName(doc)
        plan == RenamePlan(doc)
    IN  [nm \in {k \in DOMAIN bn : Len(bn[k]) > 1} |->
            plan[CHOOSE k \in 1..Len(plan) :
                    /\ plan[k].old = nm
                    /\ \A j \in 1..Len(plan) : plan[j].old = nm => plan[j].node <= plan[k].node].new]

\* canonical_name: old -> old, for every group of more than one declaration
CanonicalName(doc) ==
    LET bn == ByName(doc) IN [nm \in {k \in DOMAIN bn : Len(bn[k]) > 1} |-> nm]

\* step 3: ch.set("name", new) for every planned node
ApplyNames(doc, plan) ==
    [doc EXCEPT !.children =
        [i \in 1..Len(doc.children) |->
            IF \E k \in 1..Len(plan) : plan[k].node = i
            THEN LET k == CHOOSE j \in 1..Len(plan) : plan[j].node = i
                 IN  [doc.children[i] EXCEPT ![1] = SetAttr(@, "name", plan[k].new)]
            ELSE doc.children[i]]]

HasColon(v) == Contains(v, <<":">>)
\* pfx + ":" of v.split(":", 1), "" without a colon
PrefixOf(v) == IF HasColon(v) THEN SplitHead(v, <<":">>) \o <<":">> ELSE <<>>
\* lname of v.split(":", 1)
LocalOf(v) ==
    IF HasColon(v) THEN SubSeq(v, Len(SplitHead(v, <<":">>)) + 2, Len(v)) ELSE v

\* the new value of one reference attribute in step 4
ResolverValue(v, changed_groups, canonical_name) ==
    IF v = <<>> THEN v
    ELSE IF LocalOf(v) \in changed_groups
         THEN PrefixOf(v) \o (IF LocalOf(v) \in DOMAIN canonical_name
                              THEN canonical_name[LocalOf(v)] ELSE LocalOf(v))
         ELSE v

\* the body of the loop over REF_ATTRS for one node
RECURSIVE RewriteNode(_, _, _, _)
RewriteNode(n, attrs, changed_groups, canonical_name) ==
    IF attrs = <<>> THEN n
    ELSE LET a == Head(attrs)
             v == Get(n, a)
             nv == ResolverValue(v, changed_groups, canonical_name)
         IN  RewriteNode(IF nv # v THEN SetAttr(n, a, nv) ELSE n,
                         Tail(attrs), changed_groups, canonical_name)

\* step 4 over the whole tree
UpdateReferences(doc, changed_groups, canonical_name) ==
    [doc EXCEPT !.children =
        [i \in 1..Len(doc.children) |->
            [k \in 1..Len(doc.children[i]) |->
                RewriteNode(doc.children[i][k], REF_ATTRS, changed_groups,
                            canonical_name)]]]

\* the (child, node, attribute) places of a document
Places(doc) ==
    UNION {{<<i, k, a>> : k \in 1..Len(doc.children[i]),
                          a \in {"name", "type", "base", "ref"}} :
           i \in 1..Len(doc.children)}

NodeAt(doc, p) == doc.children[p[1]][p[2]]

\* updates: the number of reference attributes step 4 has set
CountUpdates(before, after) ==
    Cardinality({p \in Places(before) : Get(NodeAt(before, p), p[3]) # Get(NodeAt(after, p), p[3])})

FixCollisions ==
    /\ tool' = "fix"
    /\ dupes' = NoDupes
    /\ ambiguous_names' = {}
    /\ UNCHANGED input
    /\ IF BadRoot(input)
       THEN /\ status' = 2
            /\ tree' = input
            /\ rename_plan' = <<>>
            /\ updates' = 0
            /\ written' = NoFile
            /\ UNCHANGED fixed_xsd
       ELSE \E plan \in {RenamePlan(input)} :
            \E renamed \in {ApplyNames(input, plan)} :
            \E result \in {UpdateReferences(renamed, {plan[k].old : k \in 1..Len(plan)},
                                             CanonicalName(input))} :
                /\ status' = 0
                /\ rename_plan' = plan
                /\ IF plan = <<>>
                   THEN /\ tree' = input
                        /\ updates' = 0
                        /\ written' = NoFile
                        /\ UNCHANGED fixed_xsd
                   ELSE /\ tree' = result
                        /\ updates' = CountUpdates(renamed, result)
                        /\ \E dry_run \in BOOLEAN :
                              IF dry_run
                              THEN written' = NoFile /\ UNCHANGED fixed_xsd
                              ELSE written' = <<result>> /\ fixed_xsd' = <<result>>

-----------------------------------------------------------------------------
(* finalize_schema.py *)

\* the loop over renamed_components
AmbiguousNames(original_globals, fixed_globals) ==
    LET renamed_components == fixed_globals \ original_globals
        hasX(r) == Contains(r, <<"_", "x">>)
        hasR(r) == Contains(r, <<"_", "R">>)
    IN  {SplitHead(r, <<"_", "x">>) : r \in {q \in renamed_components : hasX(q)}}
        \cup
        {SplitHead(r, <<"_", "R">>) : r \in {q \in renamed_components : ~hasX(q) /\ hasR(q)}}

\* rename_plan[name] = f"{name}Type"
TypeName(name) == name \o <<"T", "y", "p", "e">>

\* (mutant) only the first definition of a plan key is renamed
RenameFirstDefinition(doc, plan_keys) ==
    [doc EXCEPT !.children =
        [i \in 1..Len(doc.children) |->
            IF /\ doc.children[i][1].tag \in GLOBAL_DEFINITIONS
               /\ "name" \in DOMAIN doc.children[i][1].attrs
               /\ NameOf(doc.children[i]) \in plan_keys
               /\ \A j \in 1..(i - 1) :
                     ~(/\ doc.children[j][1].tag \in GLOBAL_DEFINITIONS
                       /\ "name" \in DOMAIN doc.children[j][1].attrs
                       /\ NameOf(doc.children[j]) = NameOf(doc.children[i]))
            THEN [doc.children[i] EXCEPT ![1] = SetAttr(@, "name", TypeName(NameOf(doc.children[i])))]
            ELSE doc.children[i]]]

\* Part A: rename the global type definitions
RenameDefinitions(doc, plan_keys) ==
    [doc EXCEPT !.children =
        [i \in 1..Len(doc.children) |->
            IF /\ doc.children[i][1].tag \in GLOBAL_DEFINITIONS
               /\ "name" \in DOMAIN doc.children[i][1].attrs
               /\ NameOf(doc.children[i]) \in plan_keys
            THEN [doc.children[i] EXCEPT ![1] = SetAttr(@, "name", TypeName(NameOf(doc.children[i])))]
            ELSE doc.children[i]]]

\* Part B, one attribute value: does the loop body set it
FinalizerSets(v, plan_keys) == v # <<>> /\ LocalOf(v) \in plan_keys

\* (mutant) the prefix is dropped from the rewritten value
FinalizerValueNoPrefix(v, plan_keys) ==
    IF FinalizerSets(v, plan_keys) THEN TypeName(LocalOf(v)) ELSE v

FinalizerValue(v, plan_keys) ==
    IF FinalizerSets(v, plan_keys) THEN PrefixOf(v) \o TypeName(LocalOf(v)) ELSE v

RECURSIVE FinalizeNode(_, _, _)
FinalizeNode(n, attrs, plan_keys) ==
    IF attrs = <<>> THEN n
    ELSE LET a == Head(attrs)
             v == Get(n, a)
         IN  FinalizeNode(IF FinalizerSets(v, plan_keys)
                          THEN SetAttr(n, a, FinalizerValue(v, plan_keys)) ELSE n,
                          Tail(attrs), plan_keys)

\* Part B over the whole tree
FinalizeReferences(doc, plan_keys) ==
    [doc EXCEPT !.children =
        [i \in 1..Len(doc.children) |->
            [k \in 1..Len(doc.children[i]) |->
                FinalizeNode(doc.children[i][k], REF_ATTRS, plan_keys)]]]

\* update_count
FinalizerCount(doc, plan_keys) ==
    Cardinality({p \in Places(doc) :
        p[3] # "name" /\ FinalizerSets(Get(NodeAt(doc, p), p[3]), plan_keys)})

\* the documents that can be given as fixed_xsd: the Resolver's output when it
\* exists, and the original itself
FixedArgs == {input} \cup {fixed_xsd[k] : k \in 1..Len(fixed_xsd)}

FinalizeSchema(fixed) ==
    \E keys \in {AmbiguousNames(get_global_names(input), get_global_names(fixed))} :
    \E renamed \in {RenameDefinitions(input, keys)} :
    \E result \in {FinalizeReferences(renamed, keys)} :
        /\ tool' = "finalize"
        /\ status' = 0
        /\ ambiguous_names' = keys
        /\ dupes' = NoDupes
        /\ rename_plan' = <<>>
        /\ IF keys = {}
           THEN /\ tree' = input
                /\ updates' = 0
                /\ written' = NoFile
           ELSE /\ tree' = result
                /\ updates' = FinalizerCount(renamed, keys)
                /\ written' = <<result>>
        /\ UNCHANGED <<input, fixed_xsd>>

-----------------------------------------------------------------------------

Init ==
    /\ input \in Documents
    /\ fixed_xsd = NoFile
    /\ tool = "none"
    /\ status = 0
    /\ tree = input
    /\ dupes = NoDupes
    /\ rename_plan = <<>>
    /\ updates = 0
    /\ ambiguous_names = {}
    /\ written = NoFile

Next ==
    \/ \E json \in BOOLEAN : FindCollisions(json)
    \/ FixCollisions
    \/ \E fixed \in FixedArgs : FinalizeSchema(fixed)

Spec == Init /\ [][Next]_vars

-----------------------------------------------------------------------------
(* Vocabulary of the properties *)

\* the root-level element/complexType/simpleType children that have a name
Declared(doc) ==
    {i \in 1..Len(doc.children) :
        /\ doc.children[i][1].tag \in {"element", "complexType", "simpleType"}
        /\ "name" \in DOMAIN doc.children[i][1].attrs}

DeclName(doc, i) == doc.children[i][1].attrs["name"]

DeclaredNames(doc) == {DeclName(doc, i) : i \in Declared(doc)}

\* the declarations that carry the name nm
Group(doc, nm) == {i \in Declared(doc) : DeclName(doc, i) = nm}

\* the names carried by two or more declarations
DuplicateNames(doc) == {nm \in DeclaredNames(doc) : Cardinality(Group(doc, nm)) >= 2}

Min(S) == CHOOSE x \in S : \A y \in S : x <= y

\* the 1-based position of declaration i in its group
PositionInGroup(doc, i) ==
    Cardinality({j \in Group(doc, DeclName(doc, i)) : j <= i})

\* the type/base/ref attributes present in a document, as places
RefPlaces(doc) ==
    {p \in Places(doc) : p[3] \in {"type", "base", "ref"} /\ p[3] \in DOMAIN NodeAt(doc, p).attrs}

ValueAt(doc, p) == NodeAt(doc, p).attrs[p[3]]

\* v is pre followed by loc, pre being empty when v has no colon and the part
\* up to and including the first colon otherwise
SplitsAs(v, pre, loc) ==
    /\ v = pre \o loc
    /\ IF \E k \in 1..Len(v) : v[k] = ":"
       THEN /\ pre # <<>>
            /\ pre[Len(pre)] = ":"
            /\ \A k \in 1..(Len(pre) - 1) : pre[k] # ":"
       ELSE pre = <<>>

Splits(v) ==
    {sp \in {<<SubSeq(v, 1, k), SubSeq(v, k + 1, Len(v))>> : k \in 0..Len(v)} :
        SplitsAs(v, sp[1], sp[2])}

\* the local name of a reference value
LocalName(v) == (CHOOSE sp \in Splits(v) : TRUE)[2]

ResolverDone == tool = "fix" /\ status = 0
FinalizerDone == tool = "finalize" /\ status = 0

\* the names the Resolver had in use when it planned entry k: those of the
\* input and those chosen for the entries before k
InUse(k) == DeclaredNames(input) \cup {rename_plan[j].new : j \in 1..(k - 1)}

\* old + "_x" + n
Numbered(old, n) == old \o <<"_", "x">> \o FormatInt(n)

\* the numbers tried for a member: the model's documents need far fewer
Numbers(from) == from..(from + Len(input.children) + Len(rename_plan) + 1)

-----------------------------------------------------------------------------
(* C1 *)

\* C1: after the Resolver has applied its renames, no two global
\* declarations of the document carry the same name.
ResolverUniqueness ==
    ResolverDone =>
        \A i, j \in Declared(tree) : DeclName(tree, i) = DeclName(tree, j) => i = j

\* a run that renamed two declarations of one group and wrote its output
ResolverUniquenessWitness ==
    /\ ResolverDone
    /\ Len(rename_plan) >= 2
    /\ rename_plan[1].old = rename_plan[2].old
    /\ written = <<tree>>

(* C2 *)

\* C2: every type/base/ref attribute whose local name is the name of a global
\* declaration of the input still names, by its local name, a global
\* declaration of the output, after the Resolver and after the Finalizer.
ReferenceIntegrity ==
    (ResolverDone \/ FinalizerDone) =>
        \A p \in RefPlaces(input) :
            LocalName(ValueAt(input, p)) \in DeclaredNames(input)
                => LocalName(ValueAt(tree, p)) \in DeclaredNames(tree)

(* C3 *)

\* C3: the first declaration of every duplicated name still carries that
\* name after the Resolver, and no other declaration of the output does.
CanonicalStability ==
    ResolverDone =>
        \A nm \in DuplicateNames(input) :
            Group(tree, nm) = {Min(Group(input, nm))}

\* a run over a document with a duplicated name whose later member was renamed
CanonicalStabilityWitness ==
    /\ ResolverDone
    /\ \E nm \in DuplicateNames(input) :
           \E i \in Group(input, nm) : DeclName(tree, i) # nm

(* C4 *)

\* C4 as stated: whichever tool ran on a document whose root is not a schema
\* element, it ended with a non-zero status, renamed and rewrote nothing and
\* wrote no file.
StructuralErrorAllTools ==
    (tool # "none" /\ input.root # "schema") =>
        status # 0 /\ tree = input /\ written = NoFile

\* C4 amended: the Detector and the Resolver end with a non-zero status on a
\* document whose root is not a schema element, having renamed and rewritten
\* nothing and written no file; the Finalizer does not look at the root and
\* ends with status 0.
StructuralError ==
    input.root # "schema" =>
        /\ tool \in {"find", "fix"} =>
              status # 0 /\ tree = input /\ written = NoFile /\ fixed_xsd = NoFile
        /\ tool = "finalize" => status = 0

\* the Resolver has refused a document that has duplicates to rename
StructuralErrorWitness ==
    /\ tool = "fix"
    /\ input.root # "schema"
    /\ status = 2
    /\ DuplicateNames(input) # {}

(* C5 *)

\* C5 as stated: every renamed member the heuristic classifies is named
\* old name + "_Rq" or old name + "_Rs".
SemanticSuffixAlways ==
    ResolverDone =>
        \A k \in 1..Len(rename_plan) :
            LET hx == guess_affinity(input.children[rename_plan[k].node]) IN
            hx # NoAffinity => rename_plan[k].new = rename_plan[k].old \o hx

\* C5 amended: a renamed member the heuristic classifies is named old name +
\* "_Rq" / "_Rs" when that name is neither a global name of the input nor a
\* name chosen earlier in the run; otherwise it is named old name + "_x" + N,
\* N the smallest integer above its position in the group whose name is free.
SemanticSuffix ==
    ResolverDone =>
        \A k \in 1..Len(rename_plan) :
            LET e == rename_plan[k]
                hx == guess_affinity(input.children[e.node])
                i == PositionInGroup(input, e.node)
                free == {n \in Numbers(i + 1) : Numbered(e.old, n) \notin InUse(k)}
            IN  hx # NoAffinity =>
                    /\ hx \in {<<"_", "R", "q">>, <<"_", "R", "s">>}
                    /\ IF e.old \o hx \notin InUse(k)
                       THEN e.new = e.old \o hx
                       ELSE e.new = Numbered(e.old, Min(free))

\* two request-like members of one group: the first takes the suffix and the
\* second cannot
SemanticSuffixWitness ==
    /\ ResolverDone
    /\ \E k, m \in 1..Len(rename_plan) :
          /\ k < m
          /\ guess_affinity(input.children[rename_plan[k].node]) = <<"_", "R", "q">>
          /\ guess_affinity(input.children[rename_plan[m].node]) = <<"_", "R", "q">>
          /\ rename_plan[k].new = rename_plan[k].old \o <<"_", "R", "q">>
          /\ rename_plan[m].new # rename_plan[m].old \o <<"_", "R", "q">>

(* C6 *)

\* C6: a renamed member the heuristic leaves undetermined, at position i of
\* its group, is named old name + "_x" + N, N the smallest integer >= i whose
\* name is neither a global name of the input nor chosen earlier in the run.
NumberedFallback ==
    ResolverDone =>
        \A k \in 1..Len(rename_plan) :
            LET e == rename_plan[k]
                i == PositionInGroup(input, e.node)
                free == {n \in Numbers(i) : Numbered(e.old, n) \notin InUse(k)}
            IN  guess_affinity(input.children[e.node]) = NoAffinity
                    => e.new = Numbered(e.old, Min(free))

\* an undetermined second member whose number had to pass a name of the input
NumberedFallbackWitness ==
    /\ ResolverDone
    /\ \E k \in 1..Len(rename_plan) :
          /\ guess_affinity(input.children[rename_plan[k].node]) = NoAffinity
          /\ PositionInGroup(input, rename_plan[k].node) = 2
          /\ Numbered(rename_plan[k].old, 2) \in DeclaredNames(input)
          /\ rename_plan[k].new = Numbered(rename_plan[k].old, 3)

(* C7 *)

\* C7 as stated: the Finalizer replaces the local name of every type/base/ref
\* attribute whose local name is a plan key by local name + "Type", keeping
\* the prefix, and leaves every other such attribute unchanged.
PrefixPreservationAll ==
    FinalizerDone =>
        \A p \in RefPlaces(input) :
            \A sp \in Splits(ValueAt(input, p)) :
                /\ p[3] \in DOMAIN NodeAt(tree, p).attrs
                /\ ValueAt(tree, p) =
                      IF sp[2] \in ambiguous_names
                      THEN sp[1] \o sp[2] \o <<"T", "y", "p", "e">>
                      ELSE ValueAt(input, p)

\* C7 amended: the same, for every type/base/ref attribute whose value is not
\* empty; an attribute whose value is empty is left unchanged.
PrefixPreservation ==
    FinalizerDone =>
        \A p \in RefPlaces(input) :
            \A sp \in Splits(ValueAt(input, p)) :
                /\ p[3] \in DOMAIN NodeAt(tree, p).attrs
                /\ ValueAt(tree, p) =
                      IF ValueAt(input, p) # <<>> /\ sp[2] \in ambiguous_names
                      THEN sp[1] \o sp[2] \o <<"T", "y", "p", "e">>
                      ELSE ValueAt(input, p)

\* a run that rewrote t:A to t:AType and A to AType
PrefixPreservationWitness ==
    /\ FinalizerDone
    /\ \E p, r \in RefPlaces(input) :
          /\ ValueAt(input, p) = <<"t", ":", "A">>
          /\ ValueAt(tree, p) = <<"t", ":", "A", "T", "y", "p", "e">>
          /\ ValueAt(input, r) = <<"A">>
          /\ ValueAt(tree, r) = <<"A", "T", "y", "p", "e">>

(* C8 *)

\* C8: the keys of the Detector's duplicate map are exactly the names carried
\* by two or more declarations, each key maps to one entry per declaration,
\* in document order, with the declaration's kind, and the document is
\* unchanged.
DetectorGrouping ==
    (tool = "find" /\ status = 0) =>
        /\ DOMAIN dupes = DuplicateNames(input)
        /\ \A nm \in DOMAIN dupes :
              /\ Len(dupes[nm]) = Cardinality(Group(input, nm))
              /\ \A i \in Group(input, nm) :
                    dupes[nm][PositionInGroup(input, i)].kind = input.children[i][1].tag
        /\ tree = input

\* a run that found a group of an element and a type, next to a child that is
\* no declaration
DetectorGroupingWitness ==
    /\ tool = "find"
    /\ status = 0
    /\ \E nm \in DOMAIN dupes :
          /\ Len(dupes[nm]) = 2
          /\ dupes[nm][1].kind = "element"
          /\ dupes[nm][2].kind = "complexType"
    /\ Declared(input) # 1..Len(input.children)

(* C9 *)

\* C9: the Resolver leaves every type/base/ref attribute as it was and
\* reports 0 updated references; all it changes are the name attributes of
\* the members of duplicate groups after the first.
ResolverFrame ==
    tool = "fix" =>
        /\ updates = 0
        /\ tree.root = input.root
        /\ Len(tree.children) = Len(input.children)
        /\ \A i \in 1..Len(input.children) :
              /\ Len(tree.children[i]) = Len(input.children[i])
              /\ \A k \in 1..Len(input.children[i]) :
                    LET old == input.children[i][k]
                        new == tree.children[i][k]
                    IN  /\ new.tag = old.tag
                        /\ new.text = old.text
                        /\ DOMAIN new.attrs = DOMAIN old.attrs
                        /\ \A a \in DOMAIN old.attrs :
                              new.attrs[a] # old.attrs[a] =>
                                  /\ a = "name"
                                  /\ k = 1
                                  /\ i \in Declared(input)
                                  /\ PositionInGroup(input, i) >= 2

\* a run that renamed a duplicate named A in a document with references to A
ResolverFrameWitness ==
    /\ ResolverDone
    /\ rename_plan # <<>>
    /\ \E p \in RefPlaces(input) :
          LocalName(ValueAt(input, p)) \in {rename_plan[k].old : k \in 1..Len(rename_plan)}

(* C10 *)

\* C10: two global complexType/simpleType declarations that share a name in
\* the original share a name in the Finalizer's output.
FinalizerKeepsCollisions ==
    FinalizerDone =>
        \A i, j \in Declared(input) :
            (/\ input.children[i][1].tag \in {"complexType", "simpleType"}
             /\ input.children[j][1].tag \in {"complexType", "simpleType"}
             /\ DeclName(input, i) = DeclName(input, j))
                => DeclName(tree, i) = DeclName(tree, j)

\* a run that renamed two type declarations named A to AType
FinalizerKeepsCollisionsWitness ==
    /\ FinalizerDone
    /\ \E i, j \in Declared(input) :
          /\ i # j
          /\ DeclName(input, i) = <<"A">>
          /\ DeclName(input, j) = <<"A">>
          /\ DeclName(tree, i) = <<"A", "T", "y", "p", "e">>
          /\ DeclName(tree, j) = <<"A", "T", "y", "p", "e">>
====
